---- MODULE Spec2Model ----
(***************************************************************************)
(* refman: a command line tool that indexes PDF documents into a bleve     *)
(* index and queries that index.  The repository carries two revisions of  *)
(* the program: src/main.go (buffered stderr logger, ledongthuc/pdf) and   *)
(* src/unnamed/part_000 (go.mod followed by the revision that has the -v   *)
(* and -vv flags and uses pdfcpu).  The variable build says which of the   *)
(* two revisions is running; everything else is shared.                    *)
(*                                                                         *)
(* One behaviour of the model is a sequence of process runs over the same  *)
(* on-disk index: init (the process starts with a command line and Go's    *)
(* package initialiser runs), main (func main with everything it calls),   *)
(* Exit (the process is gone).  Strings are sequences of one-character     *)
(* strings; file paths are sequences of path elements, "/" first when      *)
(* absolute.                                                               *)
(***************************************************************************)
EXTENDS Naturals, Sequences, FiniteSets

VARIABLES
    build,       \* which revision of the program runs
    pc,          \* "idle" | "main" | "exited"
    pdfFile,     \* flag --pdf, a path (<<>> is the empty string)
    bibtexFile,  \* flag --bibtex, a path (<<>> is the empty string)
    verbose,     \* flag -v
    verbose2,    \* flag -vv
    args,        \* flag.Args(): the positional terms
    disk,        \* the index at indexPath: [exists, docs]
    pre,         \* the index as it was when the running process started
    ingested,    \* history: per resolved path, the last document whose ingestion succeeded
    trace,       \* the calls the running process has made, in order
    exit,        \* "none" | "ok" | "panic" | "os.Exit"
    err,         \* the error the process panicked with, "nil" if none
    query,       \* the string handed to bleve.NewQueryStringQuery
    result       \* the ids of the search result printed

vars == <<build, pc, pdfFile, bibtexFile, verbose, verbose2, args, disk, pre,
          ingested, trace, exit, err, query, result>>

(***************************************************************************)
(* Bounds and input sets                                                   *)
(***************************************************************************)
MaxArgs == 2

Builds == {"main.go", "part_000"}

\* positional terms: a word some texts have and others lack, a term with '~'
Terms == { <<"b">>, <<"~", "a">> }

\* what the PDF library extracts from the file at --pdf
Texts == { <<"a">>, <<"a", " ", "b">> }

\* os.Getwd()
Cwd == <<"/", "d">>

\* values of --pdf; the first is the flag's default, ""
PdfFiles == { <<>>, <<"a.pdf">>, <<".", "..", "d", "a.pdf">>, <<"/", "a.pdf">> }

BibtexFiles == { <<>>, <<"r.bib">> }

RECURSIVE SeqsUpTo(_, _)
SeqsUpTo(S, n) ==
    IF n = 0 THEN { <<>> }
    ELSE LET shorter == SeqsUpTo(S, n - 1)
         IN  shorter \cup { Append(s, x) : s \in shorter, x \in S }

ArgLists == SeqsUpTo(Terms, MaxArgs)

(***************************************************************************)
(* strings                                                                 *)
(***************************************************************************)
\* strings.Join(a, " ")
RECURSIVE Join(_)
Join(a) ==
    IF Len(a) = 0 THEN <<>>
    ELSE IF Len(a) = 1 THEN a[1]
    ELSE a[1] \o <<" ">> \o Join(Tail(a))

\* strings.ReplaceAll(s, old, new) for one-character old and new
ReplaceAll(s, old, new) ==
    [i \in 1..Len(s) |-> IF s[i] = old THEN new ELSE s[i]]

\* the string main hands to bleve.NewQueryStringQuery
QueryString(b, a) ==
    IF b = "part_000" THEN ReplaceAll(Join(a), "~", "-") ELSE Join(a)

(***************************************************************************)
(* paths: filepath.Abs, filepath.Clean                                     *)
(***************************************************************************)
IsAbs(p) == Len(p) > 0 /\ p[1] = "/"

\* filepath.Clean on the elements after the root: "." is dropped, ".."
\* removes the element before it, and is dropped at the root of a rooted
\* path, kept at the start of a relative one
RECURSIVE CleanElems(_, _, _)
CleanElems(out, rest, rooted) ==
    IF Len(rest) = 0 THEN out
    ELSE LET e == Head(rest)
             t == Tail(rest)
         IN  IF e = "." \/ e = "" THEN CleanElems(out, t, rooted)
             ELSE IF e = ".." THEN
                 IF Len(out) > 0 /\ out[Len(out)] # ".."
                 THEN CleanElems(SubSeq(out, 1, Len(out) - 1), t, rooted)
                 ELSE IF rooted THEN CleanElems(out, t, rooted)
                 ELSE CleanElems(Append(out, ".."), t, rooted)
             ELSE CleanElems(Append(out, e), t, rooted)

Clean(p) ==
    IF IsAbs(p) THEN <<"/">> \o CleanElems(<<>>, Tail(p), TRUE)
    ELSE CleanElems(<<>>, p, FALSE)

\* filepath.Abs with the working directory wd
AbsNoClean(wd, p) == IF IsAbs(p) THEN p ELSE wd \o p

Abs(wd, p) == IF IsAbs(p) THEN Clean(p) ELSE Clean(wd \o p)

(***************************************************************************)
(* the bleve index (library): documents by id, open, create, insert, search*)
(***************************************************************************)
NoIndex == [exists |-> FALSE, docs |-> {}]

\* bleve.Open(indexPath): fails when nothing is at the path, and when what
\* is there cannot be opened (ok = FALSE: I/O failure, corruption, lock)
bleveOpen(d, ok) ==
    IF ~d.exists THEN "ErrorIndexPathDoesNotExist"
    ELSE IF ~ok THEN "ErrOpen"
    ELSE "nil"

\* bleve.New(indexPath, mapping): refuses a path that exists, creates an
\* empty index otherwise (ok = FALSE: the creation fails)
bleveNew(d, ok) ==
    IF d.exists THEN [err |-> "ErrorIndexPathExists", disk |-> d]
    ELSE IF ~ok THEN [err |-> "ErrNew", disk |-> d]
    ELSE [err |-> "nil", disk |-> [exists |-> TRUE, docs |-> {}]]

\* index.Index(id, doc): the document stored under id is replaced
bleveIndex(d, id, doc) ==
    [d EXCEPT !.docs = { r \in d.docs : r.id # id } \cup { [id |-> id, doc |-> doc] }]

\* strings split at the spaces, as the analyzer and the query parser do
RECURSIVE Split(_, _)
Split(s, cur) ==
    IF Len(s) = 0 THEN (IF Len(cur) = 0 THEN {} ELSE {cur})
    ELSE IF Head(s) = " "
         THEN (IF Len(cur) = 0 THEN {} ELSE {cur}) \cup Split(Tail(s), <<>>)
         ELSE Split(Tail(s), Append(cur, Head(s)))

IsLetter(c) == c \notin {" ", "~", "-"}

\* the words of a string
Words(s) == { SelectSeq(t, IsLetter) : t \in Split(s, <<>>) } \ { <<>> }

\* query string syntax: a clause per blank-separated token, a leading '-'
\* makes it a must-not clause; a query of must-not clauses alone matches
\* every document they do not exclude
MustNot(q) == { SelectSeq(t, IsLetter) : t \in { u \in Split(q, <<>>) : u[1] = "-" } }

Should(q) == { SelectSeq(t, IsLetter) : t \in { u \in Split(q, <<>>) : u[1] # "-" } }

Matches(doc, q) ==
    /\ Split(q, <<>>) # {}
    /\ MustNot(q) \cap Words(doc.Txt) = {}
    /\ Should(q) = {} \/ Should(q) \cap Words(doc.Txt) # {}

\* index.Search(request): the ids of the matching documents
bleveSearch(d, q) == { r.id : r \in { x \in d.docs : Matches(x.doc, q) } }

(***************************************************************************)
(* the program                                                             *)
(***************************************************************************)
\* one logger.Printf / logger.Println: main.go writes into the bufio.Writer
\* around stderr; part_000 writes to stderr with -v or -vv, and to
\* ioutil.Discard without
Log(b, v, v2) ==
    IF b = "main.go" THEN <<"log.buf">>
    ELSE IF v \/ v2 THEN <<"log.stderr">>
    ELSE <<>>

\* defer stderr.Flush(), main.go only
Flush(b) == IF b = "main.go" THEN <<"stderr.Flush">> ELSE <<>>

\* what flag.Parse, os.UserHomeDir and os.MkdirAll can do in init; main.go
\* defines no -v and no -vv, flag.Parse rejects them
InitFaults(b, v, v2) ==
    IF b = "main.go" /\ (v \/ v2) THEN {"flag", "home", "mkdir"}
    ELSE {"none", "flag", "home", "mkdir"}

\* func init: the trace and the way it ends.  flag.Parse ends the process
\* with os.Exit on a bad command line, which runs no deferred call
initRun(b, v, v2, fault) ==
    IF b = "main.go" THEN
        IF fault = "home" THEN
            [exit |-> "panic", err |-> "ErrHome",
             trace |-> <<"bufio.NewWriter", "stderr.Flush">>]
        ELSE IF fault = "mkdir" THEN
            [exit |-> "panic", err |-> "ErrMkdir",
             trace |-> <<"bufio.NewWriter">> \o Log(b, v, v2) \o <<"stderr.Flush">>]
        ELSE IF fault = "flag" THEN
            [exit |-> "os.Exit", err |-> "nil",
             trace |-> <<"bufio.NewWriter">> \o Log(b, v, v2) \o <<"os.Exit">>]
        ELSE
            [exit |-> "none", err |-> "nil",
             trace |-> <<"bufio.NewWriter">> \o Log(b, v, v2) \o <<"stderr.Flush">>]
    ELSE
        IF fault = "flag" THEN
            [exit |-> "os.Exit", err |-> "nil", trace |-> <<"os.Exit">>]
        ELSE IF fault = "home" THEN
            [exit |-> "panic", err |-> "ErrHome", trace |-> <<>>]
        ELSE IF fault = "mkdir" THEN
            [exit |-> "panic", err |-> "ErrMkdir", trace |-> Log(b, v, v2)]
        ELSE
            [exit |-> "none", err |-> "nil", trace |-> Log(b, v, v2)]

\* func openIndex
openIndex(b, v, v2, d, fault) ==
    LET l == Log(b, v, v2)
        o == bleveOpen(d, fault # "open")
        n == bleveNew(d, fault # "new")
    IN  IF o = "nil" THEN
            [err |-> "nil", disk |-> d, trace |-> l \o <<"bleve.Open">> \o l]
        ELSE IF n.err # "nil" THEN
            [err |-> n.err, disk |-> n.disk,
             trace |-> l \o <<"bleve.Open.err">> \o l \o <<"bleve.New.err">>]
        ELSE
            [err |-> "nil", disk |-> n.disk,
             trace |-> l \o <<"bleve.Open.err">> \o l \o <<"bleve.New">> \o l]

\* parseDocument, the BibTeX half: the reference, the error, the calls made
\* and the calls deferred to parseDocument's return
parseBibtexLenient(b, v, v2, bib, fault) ==
    IF bib = <<>> THEN
        [ref |-> "nil", err |-> "nil", trace |-> <<>>, deferred |-> <<>>]
    ELSE IF fault = "bibOpen" THEN
        [ref |-> "nil", err |-> "nil",
         trace |-> Log(b, v, v2) \o <<"os.Open.err">>, deferred |-> <<>>]
    ELSE IF fault = "bibParse" THEN
        [ref |-> "nil", err |-> "nil",
         trace |-> Log(b, v, v2) \o <<"os.Open", "bibtex.Parse.err">>,
         deferred |-> <<"bib.Close">>]
    ELSE
        [ref |-> "ref", err |-> "nil",
         trace |-> Log(b, v, v2) \o <<"os.Open", "bibtex.Parse">>,
         deferred |-> <<"bib.Close">>]

parseBibtex(b, v, v2, bib, fault) ==
    IF bib = <<>> THEN
        [ref |-> "nil", err |-> "nil", trace |-> <<>>, deferred |-> <<>>]
    ELSE IF fault = "bibOpen" THEN
        [ref |-> "nil", err |-> "ErrBibOpen",
         trace |-> Log(b, v, v2) \o <<"os.Open.err">>, deferred |-> <<>>]
    ELSE IF fault = "bibParse" THEN
        [ref |-> "nil", err |-> "ErrBibParse",
         trace |-> Log(b, v, v2) \o <<"os.Open", "bibtex.Parse.err">>,
         deferred |-> <<"bib.Close">>]
    ELSE
        [ref |-> "ref", err |-> "nil",
         trace |-> Log(b, v, v2) \o <<"os.Open", "bibtex.Parse">>,
         deferred |-> <<"bib.Close">>]

\* &Document{Ref: ref, Txt: txt.String()}
NewDocumentNoText(ref, txt) == [Ref |-> ref, Txt |-> <<>>]

NewDocument(ref, txt) == [Ref |-> ref, Txt |-> txt]

\* parseDocument, the PDF half: main.go holds the file pdf.Open returns and
\* defers its Close; part_000's pdfcpu calls hand out no file
pdfOpened(b) == IF b = "main.go" THEN <<"pdf.Open">> ELSE <<"pdfcpu.ReadContextFile">>

pdfDeferred(b) == IF b = "main.go" THEN <<"pdf.Close">> ELSE <<>>

\* func parseDocument
parseDocument(b, v, v2, bib, txt, fault) ==
    LET l  == Log(b, v, v2)
        bt == parseBibtex(b, v, v2, bib, fault)
    IN  IF fault = "pdfOpen" THEN
            [doc |-> NewDocument("nil", <<>>), err |-> "ErrPdfOpen",
             trace |-> l \o <<"pdf.Open.err">>]
        ELSE IF fault = "pdfText" THEN
            [doc |-> NewDocument("nil", <<>>), err |-> "ErrPdfText",
             trace |-> l \o pdfOpened(b) \o l \o <<"pdf.text.err">> \o pdfDeferred(b)]
        ELSE
            [doc |-> NewDocument(bt.ref, txt), err |-> bt.err,
             trace |-> l \o pdfOpened(b) \o l \o <<"pdf.text">> \o bt.trace
                         \o bt.deferred \o pdfDeferred(b)]

\* func addEntry
addEntry(b, v, v2, pdf, bib, d, txt, fault) ==
    LET absPath == Abs(Cwd, pdf)
        pd      == parseDocument(b, v, v2, bib, txt, fault)
    IN  IF fault = "abs" /\ ~IsAbs(pdf) THEN
            [err |-> "ErrGetwd", disk |-> d, trace |-> <<>>]
        ELSE IF pd.err # "nil" THEN
            [err |-> pd.err, disk |-> d, trace |-> pd.trace]
        ELSE IF fault = "index" THEN
            [err |-> "ErrIndex", disk |-> d,
             trace |-> pd.trace \o Log(b, v, v2) \o <<"index.Index.err">>]
        ELSE
            [err |-> "nil", disk |-> bleveIndex(d, absPath, pd.doc),
             trace |-> pd.trace \o Log(b, v, v2) \o <<"index.Index">>]

\* which branch func main takes once the index is open
ModeQueryFirst(pdf, a) ==
    IF Len(a) # 0 THEN "search" ELSE IF pdf # <<>> THEN "add" ELSE "none"

Mode(pdf, a) ==
    IF pdf # <<>> THEN "add" ELSE IF Len(a) = 0 THEN "none" ELSE "search"

\* func main: the index left on disk, the calls made, the way it ends
mainRun(b, v, v2, pdf, bib, a, d, txt, fault) ==
    LET oi == openIndex(b, v, v2, d, fault)
        ae == addEntry(b, v, v2, pdf, bib, oi.disk, txt, fault)
        q  == QueryString(b, a)
        m  == Mode(pdf, a)
        closing == <<"index.Close">> \o Flush(b)
        none == [disk |-> oi.disk, err |-> "nil", exit |-> "ok", query |-> <<>>,
                 result |-> {}, trace |-> oi.trace]
    IN  IF oi.err # "nil" THEN
            [none EXCEPT !.err = oi.err, !.exit = "panic",
                         !.trace = oi.trace \o Flush(b)]
        ELSE IF m = "add" THEN
            [none EXCEPT !.disk = ae.disk, !.err = ae.err,
                         !.exit = IF ae.err = "nil" THEN "ok" ELSE "panic",
                         !.trace = oi.trace \o ae.trace \o closing]
        ELSE IF m = "none" THEN
            [none EXCEPT !.trace = oi.trace \o Log(b, v, v2) \o closing]
        ELSE IF fault = "search" THEN
            [none EXCEPT !.err = "ErrSearch", !.exit = "panic", !.query = q,
                         !.trace = oi.trace \o <<"index.Search.err">> \o closing]
        ELSE
            [none EXCEPT !.query = q, !.result = bleveSearch(oi.disk, q),
                         !.trace = oi.trace \o <<"index.Search", "stdout.result">>
                                     \o closing]

(***************************************************************************)
(* history: where a path leads, by walking the directories                 *)
(***************************************************************************)
RECURSIVE Walk(_, _)
Walk(dir, rest) ==
    IF Len(rest) = 0 THEN <<"/">> \o dir
    ELSE IF Head(rest) = "/" THEN Walk(<<>>, Tail(rest))
    ELSE IF Head(rest) = "." THEN Walk(dir, Tail(rest))
    ELSE IF Head(rest) = ".." THEN
        Walk(IF Len(dir) = 0 THEN dir ELSE SubSeq(dir, 1, Len(dir) - 1), Tail(rest))
    ELSE Walk(Append(dir, Head(rest)), Tail(rest))

Resolve(wd, p) == IF IsAbs(p) THEN Walk(<<>>, p) ELSE Walk(<<>>, wd \o p)

\* the run's ingestion succeeded: index.Index returned nil
Ingests(tr) == \E i \in 1..Len(tr) : tr[i] = "index.Index"

Record(h, p, doc) == { r \in h : r.path # p } \cup { [path |-> p, doc |-> doc] }

(***************************************************************************)
(* the state machine                                                       *)
(***************************************************************************)
Faults == {"none", "open", "new", "abs", "pdfOpen", "pdfText", "bibOpen",
           "bibParse", "index", "search"}

Init ==
    /\ build \in Builds
    /\ pc = "idle"
    /\ pdfFile = <<>>
    /\ bibtexFile = <<>>
    /\ verbose = FALSE
    /\ verbose2 = FALSE
    /\ args = <<>>
    /\ disk = NoIndex
    /\ pre = NoIndex
    /\ ingested = {}
    /\ trace = <<>>
    /\ exit = "none"
    /\ err = "nil"
    /\ query = <<>>
    /\ result = {}

\* a process starts: the command line is parsed into the flags and func init runs
init ==
    /\ pc = "idle"
    /\ \E pdf \in PdfFiles, bib \in BibtexFiles, a \in ArgLists,
          v \in BOOLEAN, v2 \in BOOLEAN :
         \E fault \in InitFaults(build, v, v2) :
            LET r == initRun(build, v, v2, fault)
            IN  /\ pdfFile' = pdf
                /\ bibtexFile' = bib
                /\ args' = a
                /\ verbose' = v
                /\ verbose2' = v2
                /\ trace' = r.trace
                /\ exit' = r.exit
                /\ err' = r.err
                /\ pc' = IF r.exit = "none" THEN "main" ELSE "exited"
    /\ pre' = disk
    /\ query' = <<>>
    /\ result' = {}
    /\ UNCHANGED <<build, disk, ingested>>

\* func main runs to the end of the process
main ==
    /\ pc = "main"
    /\ \E txt \in Texts, fault \in Faults :
         LET r == mainRun(build, verbose, verbose2, pdfFile, bibtexFile, args,
                          disk, txt, fault)
         IN  /\ disk' = r.disk
             /\ trace' = trace \o r.trace
             /\ exit' = r.exit
             /\ err' = r.err
             /\ query' = r.query
             /\ result' = r.result
             /\ ingested' =
                  IF Ingests(r.trace)
                  THEN Record(ingested, Resolve(Cwd, pdfFile),
                              [Ref |-> IF bibtexFile = <<>> THEN "nil" ELSE "ref",
                               Txt |-> txt])
                  ELSE ingested
    /\ pc' = "exited"
    /\ UNCHANGED <<build, pdfFile, bibtexFile, verbose, verbose2, args, pre>>

\* the process is gone and with it its globals; the index stays on disk
Exit ==
    /\ pc = "exited"
    /\ pc' = "idle"
    /\ pdfFile' = <<>>
    /\ bibtexFile' = <<>>
    /\ verbose' = FALSE
    /\ verbose2' = FALSE
    /\ args' = <<>>
    /\ pre' = disk
    /\ trace' = <<>>
    /\ exit' = "none"
    /\ err' = "nil"
    /\ query' = <<>>
    /\ result' = {}
    /\ UNCHANGED <<build, disk, ingested>>

Next == init \/ main \/ Exit

Spec == Init /\ [][Next]_vars

(***************************************************************************)
(* reading the trace                                                       *)
(***************************************************************************)
Has(tr, e) == \E i \in 1..Len(tr) : tr[i] = e

Count(tr, E) == Cardinality({ i \in 1..Len(tr) : tr[i] \in E })

OpenCalls == {"bleve.Open", "bleve.Open.err"}
NewCalls == {"bleve.New", "bleve.New.err"}
IndexCalls == {"index.Index", "index.Index.err"}
SearchCalls == {"index.Search", "index.Search.err"}

ExtractionFailed == Has(trace, "pdf.Open.err") \/ Has(trace, "pdf.text.err")

BibtexFailed == Has(trace, "os.Open.err") \/ Has(trace, "bibtex.Parse.err")

\* a log message reached standard error
LogEmitted ==
    \/ Has(trace, "log.stderr")
    \/ \E i, j \in 1..Len(trace) :
          i < j /\ trace[i] = "log.buf" /\ trace[j] = "stderr.Flush"

\* the word w stands in the text txt between blanks or the text's ends
Occurs(w, txt) ==
    \E i \in 1..Len(txt) :
        /\ i + Len(w) - 1 <= Len(txt)
        /\ SubSeq(txt, i, i + Len(w) - 1) = w
        /\ i = 1 \/ txt[i - 1] = " "
        /\ i + Len(w) - 1 = Len(txt) \/ txt[i + Len(w)] = " "

PlainWord(t) == Len(t) > 0 /\ \A i \in 1..Len(t) : IsLetter(t[i])

(***************************************************************************)
(* the claims                                                              *)
(***************************************************************************)

\* C1: an ingestion run whose text extraction fails leaves the index on
\* disk as it was before the run, absent if it was absent.
C1_FailedExtractionLeavesStore ==
    (pc = "exited" /\ pdfFile # <<>> /\ ExtractionFailed) => disk = pre

\* C2: a run with no --pdf and no positional term touches the index not at
\* all: it is neither opened nor created nor searched, and nothing is
\* printed.
C2_EmptyQueryNoStoreAccess ==
    (pc = "exited" /\ pdfFile = <<>> /\ args = <<>>) =>
        /\ Count(trace, OpenCalls \cup NewCalls \cup SearchCalls) = 0
        /\ disk = pre
        /\ result = {}
        /\ ~Has(trace, "stdout.result")

\* C3: a run calls index.Index or index.Search at most once in all; with
\* --pdf it never searches, whatever the positional terms; without --pdf it
\* never calls index.Index; with neither --pdf nor terms it calls neither.
C3_OneModePerRun ==
    pc = "exited" =>
        /\ Count(trace, IndexCalls \cup SearchCalls) <= 1
        /\ pdfFile # <<>> => Count(trace, SearchCalls) = 0
        /\ pdfFile = <<>> => Count(trace, IndexCalls) = 0
        /\ (pdfFile = <<>> /\ args = <<>>) =>
               Count(trace, IndexCalls \cup SearchCalls) = 0

\* C3 witness: an ingestion run that was also given terms has called
\* index.Index.
C3_Witness ==
    /\ pc = "exited"
    /\ pdfFile # <<>>
    /\ Len(args) > 0
    /\ Has(trace, "index.Index")

\* C4: the index holds one document per resolved path, and it is the
\* document of the last successful ingestion of that path, whatever the
\* spelling the path was given in.
C4_LastWriteWinsPerPath ==
    /\ \A r1 \in disk.docs, r2 \in disk.docs :
          Resolve(Cwd, r1.id) = Resolve(Cwd, r2.id) => r1 = r2
    /\ \A h \in ingested :
          \E r \in disk.docs : r.id = h.path /\ r.doc = h.doc
    /\ \A r \in disk.docs :
          \E h \in ingested : h.path = Resolve(Cwd, r.id)

\* C4 witness: a successful ingestion under the spelling ./../d/a.pdf has
\* replaced the document /d/a.pdf held with one of another text.
C4_Witness ==
    /\ pc = "exited"
    /\ Has(trace, "index.Index")
    /\ pdfFile = <<".", "..", "d", "a.pdf">>
    /\ \E r0 \in pre.docs, r1 \in disk.docs :
          /\ r0.id = <<"/", "d", "a.pdf">>
          /\ r1.id = r0.id
          /\ r1.doc.Txt # r0.doc.Txt
    /\ Cardinality(disk.docs) = Cardinality(pre.docs)

\* C5: when --bibtex is given and opening or parsing the bibliography
\* fails, the run never calls index.Index and the documents of the index
\* are those from before the run.
C5_BibtexFailureNoInsert ==
    (pc = "exited" /\ bibtexFile # <<>> /\ BibtexFailed) =>
        /\ Count(trace, IndexCalls) = 0
        /\ disk.docs = pre.docs
        /\ exit = "panic"

\* C5 witness: the PDF text was extracted and the bibliography then failed
\* to parse, over an index that holds documents.
C5_Witness ==
    /\ pc = "exited"
    /\ bibtexFile # <<>>
    /\ Has(trace, "pdf.text")
    /\ Has(trace, "bibtex.Parse.err")
    /\ pre.docs # {}

\* C6: the query string handed to the query engine is the positional terms
\* joined with single blanks, no character altered.
C6_QueryIsJoinedTerms ==
    (pc = "exited" /\ Count(trace, SearchCalls) > 0) => query = Join(args)

\* C7: when the index exists and opening it fails, openIndex attempts no
\* create and the caller gets the error of the open.
C7_NoCreateOverExistingStore ==
    (pc = "exited" /\ pre.exists /\ Has(trace, "bleve.Open.err")) =>
        /\ Count(trace, NewCalls) = 0
        /\ err = "ErrOpen"

\* C8: when the process has ended, every index handle, PDF file and
\* bibliography file it acquired has been closed, every message written
\* into the stderr buffer has been flushed, and the index was closed after
\* its last use.
C8_ResourcesReleased ==
    pc = "exited" =>
        /\ Count(trace, {"bleve.Open", "bleve.New"}) = Count(trace, {"index.Close"})
        /\ Count(trace, {"pdf.Open"}) = Count(trace, {"pdf.Close"})
        /\ Count(trace, {"os.Open"}) = Count(trace, {"bib.Close"})
        /\ \A i \in 1..Len(trace) :
              trace[i] = "log.buf" =>
                  \E j \in 1..Len(trace) : i < j /\ trace[j] = "stderr.Flush"
        /\ \A i \in 1..Len(trace) :
              trace[i] \in IndexCalls \cup SearchCalls \cup {"stdout.result"} =>
                  \E j \in 1..Len(trace) : i < j /\ trace[j] = "index.Close"

C10_LogsGatedStdoutClean ==
    pc = "exited" =>
        /\ LogEmitted => (verbose \/ verbose2)
        /\ Has(trace, "stdout.result") =>
               (pdfFile = <<>> /\ Has(trace, "index.Search"))

====
